---- MODULE Spec2Model ----
(***************************************************************************)
(* Presentation layer of dongeon-of-the-dragon: MainState of               *)
(* src/gui/graphical/window.rs, its ggez event handlers (update, draw,     *)
(* mouse_button_up_event), the hover query (mouse_hovering_characterisation*)
(* and watch_action) and the mpsc channels shared with the logic process.  *)
(*                                                                         *)
(* Conventions.                                                            *)
(*  - An f32 value v is represented by the integer 2*v: every f32 of the   *)
(*    program that the model needs is a multiple of 0.5, and half pixels   *)
(*    let `x as i32` (truncation) differ from x.                           *)
(*  - A String is a sequence of one-character strings; a message content   *)
(*    is a sequence of bytes (0..255).                                     *)
(*  - The contents of the sprite and gameplay_state topics are carried as   *)
(*    the values bincode::deserialize yields (a Vec<Sprite>, an Actions):   *)
(*    their byte layout is fixed by derives outside this file.             *)
(*  - Option<T> is a sequence of length at most one: None is << >>,        *)
(*    Some(v) is <<v>>.                                                    *)
(*  - Vec indices are 0-based in the program and 1-based in sequences;     *)
(*    every index that leaves a Vec (selected_menu_option, the payload of  *)
(*    select_response) is the program's 0-based index.                     *)
(***************************************************************************)
EXTENDS Integers, Sequences, FiniteSets, TLC

VARIABLES
    sprites_movables,      \* Vec<(Image, DrawParam)>
    sprites_background,    \* Vec<(Image, DrawParam)>
    sprites_ui,            \* Vec<(Image, DrawParam)>
    mouse,                 \* Mouse {pos_x, pos_y}
    receivers,             \* topic -> messages buffered on the inbound channel
    senders,               \* topic -> messages sent on the outbound channel
    stdout,                \* String: the log buffer
    current_menu,          \* Vec<String>
    sprites,               \* Vec<Sprite>
    menu_buttons,          \* Vec<Rect>
    selected_menu_option,  \* Option<usize>
    active_modal,          \* Option<(f32, f32, String)>
    gameplay_state,        \* Actions (the field, never written after new)
    canvas,                \* the draw calls of the last frame drawn
    pc,                    \* where the event loop thread stands
    watch_frame,           \* arguments of the running watch_action call
    sent,                  \* number of messages the logic process has sent
    info_responses_taken   \* number of messages taken from info_response

vars == <<sprites_movables, sprites_background, sprites_ui, mouse, receivers,
          senders, stdout, current_menu, sprites, menu_buttons,
          selected_menu_option, active_modal, gameplay_state, canvas, pc,
          watch_frame, sent, info_responses_taken>>

(***************************************************************************)
(* Bounds of the model.                                                    *)
(***************************************************************************)
\* messages the logic process sends in one behaviour
MaxSent == 3
\* messages buffered on one inbound channel at a time
MaxQueue == 2
\* rectangles menu_buttons may hold before the frame loop is cut off
MaxButtons == 4
\* messages the presentation layer sends in one behaviour
MaxOut == 2
\* messages the logic process sends in one behaviour of SpecHover
MaxHoverSent == 5

(***************************************************************************)
(* Constants of the program.                                               *)
(***************************************************************************)
SPRITE_SIZE == 32

None == << >>
Some(v) == <<v>>

\* n as f32, for an integer n
F32(n) == 2 * n

\* v as i32, for an f32 v: truncation toward zero (values far from the i32
\* limits)
AsI32(v) == IF v >= 0 THEN v \div 2 ELSE -((-v) \div 2)

\* (v / n as f32).floor(), for an f32 v and an integer n > 0, as an integer
FloorDiv(v, n) == v \div (2 * n)

\* v as u16, for an integral f32 given as the integer n: a saturating cast
AsU16(n) == IF n < 0 THEN 0 ELSE IF n > 65535 THEN 65535 ELSE n

(***************************************************************************)
(* Strings and message contents.                                           *)
(***************************************************************************)
\* the character a byte of an ASCII text decodes to
Utf8Char(b) ==
    CASE b = 10 -> "\n"
      [] b = 58 -> ":"
      [] b = 65 -> "A"
      [] b = 66 -> "B"
      [] b = 67 -> "C"
      [] b = 71 -> "G"
      [] b = 87 -> "W"
      [] b = 97 -> "a"
      [] b = 98 -> "b"

\* from_utf8(content.as_slice()).unwrap(), on the ASCII contents of the model
from_utf8(content) == [i \in 1..Len(content) |-> Utf8Char(content[i])]

\* str::split(":"): the pieces between the delimiters, never fewer than one
RECURSIVE split_from(_, _, _)
split_from(s, piece, pieces) ==
    IF s = << >> THEN Append(pieces, piece)
    ELSE IF Head(s) = ":" THEN split_from(Tail(s), << >>, Append(pieces, piece))
    ELSE split_from(Tail(s), Append(piece, Head(s)), pieces)

split(s) == split_from(s, << >>, << >>)

\* bincode::serialize of an unsigned integer of `width` bytes: little endian
RECURSIVE le_bytes(_, _)
le_bytes(n, width) ==
    IF width = 0 THEN << >> ELSE <<n % 256>> \o le_bytes(n \div 256, width - 1)

\* bincode::serialize(&menu_option), menu_option: usize
serialize_usize(n) == le_bytes(n, 8)

\* bincode::serialize(&(a, b)), a and b: u16
serialize_u16_pair(a, b) == le_bytes(a, 2) \o le_bytes(b, 2)

MessageContent(topic, content) == [topic |-> topic, content |-> content]

(***************************************************************************)
(* Channels.                                                               *)
(***************************************************************************)
InboundTopics ==
    {"clear", "stdout", "select", "sprite", "gameplay_state", "info_response"}

OutboundTopics == {"select_response", "info"}

\* Receiver::try_recv: Ok(the oldest buffered message) or Err(Empty)
try_recv(queue) == IF queue = << >> THEN None ELSE Some(Head(queue))

\* a receive that empties the channel
after_try_recv_all(queue) == << >>

\* what try_recv leaves in the channel
after_try_recv(queue) == IF queue = << >> THEN queue ELSE Tail(queue)

\* Sender::send: the message joins the channel's buffer
send(queue, message) == Append(queue, message)

(***************************************************************************)
(* Sprites, textures and rectangles.                                       *)
(***************************************************************************)
Layers == {"BACKGROUND", "MOVABLES", "UI"}

Actions == {"ATTACK", "WATCH"}

Sprite(pos_x, pos_y, layer, texture_id) ==
    [pos_x |-> pos_x, pos_y |-> pos_y, layer |-> layer, texture_id |-> texture_id]

\* the table MainState::new loads: texture id -> image
sprites_textures ==
    [id \in {0, 10, 11, 12, 200, 201} |->
        CASE id = 0 -> "/menu_background.png"
          [] id \in {10, 11, 12} -> "/dungeon_ground.png"
          [] id = 200 -> "/warrior.png"
          [] id = 201 -> "/goblin.png"]

Rect(x, y, w, h) == [x |-> x, y |-> y, w |-> w, h |-> h]

\* the hit test with the edges of the rectangle included
button_contains_closed(b, x, y) ==
    /\ b.x <= x
    /\ b.x + b.w >= x
    /\ b.y <= y
    /\ b.y + b.h >= y

\* the closure of the two menu hit tests: strictly inside the rectangle
button_contains(b, x, y) ==
    /\ b.x < x
    /\ b.x + b.w > x
    /\ b.y < y
    /\ b.y + b.h > y

\* the closure of the two sprite hit tests: the truncated click strictly
\* between the cell's first pixel and the next cell's first pixel
sprite_contains(s, x, y) ==
    /\ s.pos_y * SPRITE_SIZE < AsI32(y)
    /\ s.pos_y * SPRITE_SIZE + SPRITE_SIZE > AsI32(y)
    /\ s.pos_x * SPRITE_SIZE < AsI32(x)
    /\ s.pos_x * SPRITE_SIZE + SPRITE_SIZE > AsI32(x)

\* menu_buttons.iter().filter(..).collect()
buttons_clicked(buttons, x, y) ==
    LET hit(b) == button_contains(b, x, y) IN SelectSeq(buttons, hit)

\* the index searched in the filtered button_clicked instead of menu_buttons
button_position_in_clicked(buttons, x, y) ==
    IF buttons_clicked(buttons, x, y) = << >> THEN None ELSE Some(0)

\* menu_buttons.iter().position(..): the 0-based index of the first match
button_position(buttons, x, y) ==
    LET hits == {i \in 1..Len(buttons) : button_contains(buttons[i], x, y)}
    IN  IF hits = {} THEN None
        ELSE Some((CHOOSE i \in hits : \A j \in hits : i <= j) - 1)

\* sprites.iter().filter(..).collect()
sprites_at(batch, x, y) ==
    LET hit(s) == sprite_contains(s, x, y) IN SelectSeq(batch, hit)

\* the cell coordinates taken for pixels
image_creation_unscaled(s) ==
    [image |-> sprites_textures[s.texture_id],
     dest  |-> <<F32(s.pos_x), F32(s.pos_y)>>]

\* the closure image_creation of update: (texture, DrawParam::dest)
image_creation(s) ==
    [image |-> sprites_textures[s.texture_id],
     dest  |-> <<F32(s.pos_x * SPRITE_SIZE), F32(s.pos_y * SPRITE_SIZE)>>]

\* sprites.iter().filter(|s| s.layer == layer).map(image_creation).collect()
layer_images(batch, layer) ==
    LET of_layer(s) == s.layer = layer
        kept == SelectSeq(batch, of_layer)
    IN  [i \in 1..Len(kept) |-> image_creation(kept[i])]

(***************************************************************************)
(* Drawing.  A canvas is the sequence of draw calls of one frame.          *)
(***************************************************************************)
DrawImage(image, dest) == [image |-> image, text |-> << >>, dest |-> dest]

DrawText(text, dest) == [image |-> "", text |-> text, dest |-> dest]

\* the rectangles draw_menu pushes, one per option, after those already held
draw_menu(buttons, x, y, options) ==
    buttons \o [i \in 1..Len(options) |->
        Rect(x + F32(10), (y + F32(i - 1) * 20) + F32(10), F32(3 * 32), F32(15))]

\* the draw calls of draw_menu: the backdrop, then one text per option
draw_menu_calls(x, y, options) ==
    <<DrawImage(sprites_textures[0], <<x, y>>)>> \o
    [i \in 1..Len(options) |->
        DrawText(options[i], <<x + F32(10), (y + F32(i - 1) * 20) + F32(10)>>)]

\* the draw calls of draw_modal: the backdrop, then the text
draw_modal(x, y, content) ==
    <<DrawImage(sprites_textures[0], <<x, y>>),
      DrawText(content, <<x + F32(10), y + F32(10)>>)>>

\* Mouse::get_mesh drawn at the origin: a 20 x 20 marker at the pointer
mouse_mesh(m) == <<DrawImage("mesh", <<m.pos_x, m.pos_y>>)>>

(***************************************************************************)
(* Inputs of the model: what the logic process sends, where the user       *)
(* clicks, where the host reports the pointer.                             *)
(***************************************************************************)
\* "a", "b"
StdoutContents == {<<97>>, <<98>>}

\* "", "A", "A:B"
SelectContents == {<< >>, <<65>>, <<65, 58, 66>>}

\* two sprites stacked on cell (0, 6); a sprite on cell (0, 7) and a UI sprite
SpriteContents ==
    {<<Sprite(0, 6, "BACKGROUND", 10), Sprite(0, 6, "MOVABLES", 201)>>,
     <<Sprite(0, 7, "MOVABLES", 200), Sprite(2, 0, "UI", 0)>>}

\* "G", "W"
InfoResponseContents == {<<71>>, <<87>>}

MouseButtons == {"Left", "Right"}

\* (20, 215): inside button 0 and cell (0, 6);  (20, 200): cell (0, 6) only;
\* (20, 192.5): first pixel row of cell (0, 6); (20, 235): inside button 1 and
\* cell (0, 7);  (10, 215): on the left edge of button 0, in cell (0, 6);
\* (200, 200): on nothing, in the row of cell (0, 6)
ClickPoints ==
    {<<40, 430>>, <<40, 400>>, <<40, 385>>, <<40, 470>>, <<20, 430>>,
     <<400, 400>>}

\* ctx.mouse.position()
PointerPositions == {<<40, 430>>}

(***************************************************************************)
(* MainState::new with Default::default()                                  *)
(***************************************************************************)
\* the state MainState::new builds from the channel maps it is given
new(inbound, outbound) ==
    /\ sprites_movables = << >>
    /\ sprites_background = << >>
    /\ sprites_ui = << >>
    /\ mouse = [pos_x |-> 0, pos_y |-> 0]
    /\ receivers = [t \in inbound |-> << >>]
    /\ senders = [t \in outbound |-> << >>]
    /\ stdout = << >>
    /\ current_menu = << >>
    /\ sprites = << >>
    /\ menu_buttons = << >>
    /\ selected_menu_option = None
    /\ active_modal = None
    /\ gameplay_state = "ATTACK"
    /\ canvas = << >>
    /\ pc = "events"
    /\ watch_frame = None
    /\ sent = 0
    /\ info_responses_taken = 0

\* every topic the handlers look up is configured
Init == new(InboundTopics, OutboundTopics)

\* at most one of the topics the handlers look up is left out of the maps
InitWiring ==
    \E inbound \in SUBSET InboundTopics, outbound \in SUBSET OutboundTopics :
        /\ Cardinality(InboundTopics \ inbound)
              + Cardinality(OutboundTopics \ outbound) <= 1
        /\ new(inbound, outbound)

(***************************************************************************)
(* The logic process: it may send on any inbound topic at any time.        *)
(***************************************************************************)
LogicSendUpTo(limit, topic, content) ==
    /\ sent < limit
    /\ topic \in DOMAIN receivers
    /\ Len(receivers[topic]) < MaxQueue
    /\ receivers' = [receivers EXCEPT ![topic] = send(@, MessageContent(topic, content))]
    /\ sent' = sent + 1
    /\ UNCHANGED <<sprites_movables, sprites_background, sprites_ui, mouse,
                   senders, stdout, current_menu, sprites, menu_buttons,
                   selected_menu_option, active_modal, gameplay_state, canvas,
                   pc, watch_frame, info_responses_taken>>

LogicSend(topic, content) == LogicSendUpTo(MaxSent, topic, content)

SendClear == LogicSend("clear", << >>)

SendStdout == \E content \in StdoutContents : LogicSend("stdout", content)

SendSelect == \E content \in SelectContents : LogicSend("select", content)

SendSprite == \E content \in SpriteContents : LogicSend("sprite", content)

SendGameplayState == \E state \in Actions : LogicSend("gameplay_state", state)

SendInfoResponse ==
    \E content \in InfoResponseContents : LogicSend("info_response", content)

(***************************************************************************)
(* EventHandler::update: one try_recv on each of clear, stdout, select and *)
(* sprite, in that order, then the pointer position.                       *)
(***************************************************************************)
\* the clear message taken and the log kept
stdout_after_clear_kept(log, clear) == log

\* the log after the clear step of update
stdout_after_clear(log, clear) == IF clear # None THEN << >> ELSE log

\* the newline after the text instead of before it
stdout_after_text_newline_last(log, text) ==
    IF text # None THEN log \o from_utf8(text[1].content) \o <<"\n">> ELSE log

\* the log after the stdout step: format!("{}\n{}", self.stdout, text)
stdout_after_text(log, text) ==
    IF text # None THEN log \o <<"\n">> \o from_utf8(text[1].content) ELSE log

\* current_menu after the select step
menu_after_select(menu, text) ==
    IF text # None THEN split(from_utf8(text[1].content)) ELSE menu

\* handlers called while watch_action still waits for its response
handler_may_run_while_waiting == pc \in {"events", "watch_action"}

\* the event loop calls a handler only once the previous one has returned:
\* a watch_action still in its loop holds the thread
handler_may_run == pc = "events"

\* if let Some(container) = self.receivers.get(topic) { container.try_recv() }:
\* a topic that is not in the map is passed over
try_recv_if_some(channels, topic) ==
    IF topic \in DOMAIN channels THEN try_recv(channels[topic]) ELSE None

Update ==
    /\ handler_may_run
    /\ \E point2 \in PointerPositions :
        LET clear == try_recv_if_some(receivers, "clear")
            text == try_recv_if_some(receivers, "stdout")
            select == try_recv_if_some(receivers, "select")
            batch == try_recv_if_some(receivers, "sprite")
        IN  /\ stdout' = stdout_after_text(stdout_after_clear(stdout, clear), text)
            /\ current_menu' = menu_after_select(current_menu, select)
            /\ IF batch # None
               THEN /\ sprites_movables' = layer_images(batch[1].content, "MOVABLES")
                    /\ sprites_background' = layer_images(batch[1].content, "BACKGROUND")
                    /\ sprites' = batch[1].content
               ELSE UNCHANGED <<sprites_movables, sprites_background, sprites>>
            /\ receivers' =
                 [t \in DOMAIN receivers |->
                     IF t \in {"clear", "stdout", "select", "sprite"}
                     THEN after_try_recv(receivers[t]) ELSE receivers[t]]
            /\ mouse' = [pos_x |-> point2[1], pos_y |-> point2[2]]
    /\ pc' = "draw"
    /\ UNCHANGED <<sprites_ui, senders, menu_buttons, selected_menu_option,
                   active_modal, gameplay_state, canvas, watch_frame, sent,
                   info_responses_taken>>

(***************************************************************************)
(* EventHandler::draw                                                      *)
(***************************************************************************)
\* the draw calls of one frame, back to front
frame_calls ==
    sprites_background \o sprites_movables \o sprites_ui
    \o (IF Len(current_menu) > 0
        THEN draw_menu_calls(F32(0), F32(200), current_menu) ELSE << >>)
    \o <<DrawText(stdout, <<F32(200), F32(0)>>)>>
    \o (IF active_modal # None
        THEN draw_modal(active_modal[1][1], active_modal[1][2], active_modal[1][3])
        ELSE << >>)
    \o mouse_mesh(mouse)

Draw ==
    /\ pc = "draw"
    /\ Len(menu_buttons) + Len(current_menu) <= MaxButtons
    /\ menu_buttons' =
         IF Len(current_menu) > 0
         THEN draw_menu(menu_buttons, F32(0), F32(200), current_menu)
         ELSE menu_buttons
    /\ canvas' = frame_calls
    /\ pc' = "events"
    /\ UNCHANGED <<sprites_movables, sprites_background, sprites_ui, mouse,
                   receivers, senders, stdout, current_menu, sprites,
                   selected_menu_option, active_modal, gameplay_state,
                   watch_frame, sent, info_responses_taken>>

(***************************************************************************)
(* EventHandler::mouse_button_up_event, with the calls it makes:           *)
(* mouse_hovering_characterisation and the head of watch_action, up to the *)
(* loop that waits for info_response.                                      *)
(***************************************************************************)
\* the request with the row before the column
info_content_row_first(x, y) ==
    serialize_u16_pair(AsU16(FloorDiv(y, SPRITE_SIZE)),
                       AsU16(FloorDiv(x, SPRITE_SIZE)))

\* the content of the info request of a click at (x, y)
info_content(x, y) ==
    serialize_u16_pair(AsU16(FloorDiv(x, SPRITE_SIZE)),
                       AsU16(FloorDiv(y, SPRITE_SIZE)))

\* a mode test that takes every interaction mode for WATCH
is_watch_any(state) == TRUE

\* state == Actions::WATCH
is_watch(state) == state = "WATCH"

\* self.senders.get(topic).unwrap() and self.receivers.get(topic).unwrap():
\* the lookup of a topic that is not in the map panics
unwrap_fails(channels, topic) == topic \notin DOMAIN channels

\* messages sent so far on an outbound topic
sent_on(topic) == IF topic \in DOMAIN senders THEN Len(senders[topic]) ELSE 0

mouse_button_up_event(button, x, y) ==
    /\ handler_may_run
    /\ sent_on("select_response") + sent_on("info") < MaxOut
    /\  LET left == button = "Left"
            button_clicked == buttons_clicked(menu_buttons, x, y)
            menu_hit == left /\ Len(button_clicked) > 0
            menu_option == button_position(menu_buttons, x, y)
            sprites_selected == sprites_at(sprites, x, y)
            hovering == left /\ ~menu_hit /\ Len(sprites_selected) > 0
            select_fails == /\ menu_hit
                            /\ menu_option # None
                            /\ unwrap_fails(senders, "select_response")
            state_fails == hovering /\ unwrap_fails(receivers, "gameplay_state")
            state_content == IF hovering /\ ~state_fails
                             THEN try_recv(receivers["gameplay_state"]) ELSE None
            state_read == state_content # None
            watching == state_read /\ is_watch(state_content[1].content)
            info_fails == watching /\ unwrap_fails(senders, "info")
            response_fails == /\ watching
                              /\ ~info_fails
                              /\ unwrap_fails(receivers, "info_response")
            panics == select_fails \/ state_fails \/ info_fails \/ response_fails
        IN  /\ selected_menu_option' =
                 IF menu_hit THEN menu_option ELSE selected_menu_option
            /\ senders' =
                 IF menu_hit /\ menu_option # None /\ ~select_fails
                 THEN [senders EXCEPT !["select_response"] =
                         send(@, MessageContent("select_response",
                                                serialize_usize(menu_option[1])))]
                 ELSE IF watching /\ ~info_fails
                 THEN [senders EXCEPT !["info"] =
                         send(@, MessageContent("info", info_content(x, y)))]
                 ELSE senders
            /\ receivers' =
                 IF state_read
                 THEN [receivers EXCEPT !["gameplay_state"] = after_try_recv(@)]
                 ELSE receivers
            /\ watch_frame' =
                 IF watching /\ ~panics
                 THEN Some([x |-> x, y |-> y, sprites |-> sprites_at(sprites, x, y)])
                 ELSE None
            /\ pc' = IF panics THEN "panicked"
                     ELSE IF watching THEN "watch_action" ELSE "events"
    /\ UNCHANGED <<sprites_movables, sprites_background, sprites_ui, mouse,
                   stdout, current_menu, sprites, menu_buttons, active_modal,
                   gameplay_state, canvas, sent, info_responses_taken>>

MouseButtonUpEvent ==
    \E button \in MouseButtons, point \in ClickPoints :
        mouse_button_up_event(button, point[1], point[2])

(***************************************************************************)
(* The loop of watch_action: an iteration that finds info_response empty   *)
(* changes nothing; the one that finds a response ends the call, and with  *)
(* it mouse_button_up_event.                                               *)
(***************************************************************************)
\* the modal placed on the clicked cell instead of the clicked pixel
modal_on_cell(x, y, hovered, hovering_info) ==
    IF hovered # << >>
    THEN Some(<<F32(FloorDiv(x, SPRITE_SIZE) * SPRITE_SIZE),
                F32(FloorDiv(y, SPRITE_SIZE) * SPRITE_SIZE), hovering_info>>)
    ELSE None

\* a loop that gives up without a response and leaves the modal as it was
WatchActionGivesUp ==
    /\ pc = "watch_action"
    /\ watch_frame' = None
    /\ pc' = "events"
    /\ UNCHANGED <<sprites_movables, sprites_background, sprites_ui, mouse,
                   receivers, senders, stdout, current_menu, sprites,
                   menu_buttons, selected_menu_option, active_modal,
                   gameplay_state, canvas, sent, info_responses_taken>>

\* the emptiness test of the hit set without its negation
modal_after_response_inverted(x, y, hovered, hovering_info) ==
    IF hovered = << >> THEN Some(<<x, y, hovering_info>>) ELSE None

\* active_modal once the response is in
modal_after_response(x, y, hovered, hovering_info) ==
    IF hovered # << >> THEN Some(<<x, y, hovering_info>>) ELSE None

WatchAction ==
    /\ pc = "watch_action"
    /\ try_recv(receivers["info_response"]) # None
    /\ LET response == try_recv(receivers["info_response"])[1]
           hovering_info == from_utf8(response.content)
           frame == watch_frame[1]
       IN  active_modal' =
             modal_after_response(frame.x, frame.y, frame.sprites, hovering_info)
    /\ receivers' = [receivers EXCEPT !["info_response"] = after_try_recv(@)]
    /\ info_responses_taken' = info_responses_taken + 1
    /\ watch_frame' = None
    /\ pc' = "events"
    /\ UNCHANGED <<sprites_movables, sprites_background, sprites_ui, mouse,
                   senders, stdout, current_menu, sprites, menu_buttons,
                   selected_menu_option, gameplay_state, canvas, sent>>

Next ==
    \/ Update
    \/ Draw
    \/ MouseButtonUpEvent
    \/ WatchAction
    \/ SendClear
    \/ SendStdout
    \/ SendSelect
    \/ SendSprite
    \/ SendGameplayState
    \/ SendInfoResponse

Spec == Init /\ [][Next]_vars

\* the same program started on channel maps that may lack a topic
SpecWiring == InitWiring /\ [][Next]_vars

(***************************************************************************)
(* The same handlers with a logic process that only feeds the hover query: *)
(* sprite batches, interaction modes and answers, more of them.            *)
(***************************************************************************)
HoverSendSprite ==
    \E content \in SpriteContents : LogicSendUpTo(MaxHoverSent, "sprite", content)

HoverSendGameplayState ==
    \E state \in Actions : LogicSendUpTo(MaxHoverSent, "gameplay_state", state)

HoverSendInfoResponse ==
    \E content \in InfoResponseContents :
        LogicSendUpTo(MaxHoverSent, "info_response", content)

NextHover ==
    \/ Update
    \/ Draw
    \/ MouseButtonUpEvent
    \/ WatchAction
    \/ HoverSendSprite
    \/ HoverSendGameplayState
    \/ HoverSendInfoResponse

SpecHover == Init /\ [][NextHover]_vars

\* the loop of watch_action spins on the event-loop thread: an iteration that
\* can take a response is not put off forever
SpecLive == Spec /\ WF_vars(WatchAction)

(***************************************************************************)
(* Vocabulary of the properties, written from the statements they check    *)
(* and not from the handlers above.                                        *)
(***************************************************************************)
\* the 1-based positions of the rectangles of menu_buttons that hold the
\* point (px, py) strictly inside
RectsAround(px, py) ==
    {i \in 1..Len(menu_buttons) :
        /\ menu_buttons[i].x < px /\ px < menu_buttons[i].x + menu_buttons[i].w
        /\ menu_buttons[i].y < py /\ py < menu_buttons[i].y + menu_buttons[i].h}

Least(S) == CHOOSE i \in S : \A j \in S : i <= j

\* the unsigned integer a little-endian byte sequence stands for
RECURSIVE LittleEndian(_)
LittleEndian(bytes) ==
    IF bytes = << >> THEN 0 ELSE Head(bytes) + 256 * LittleEndian(Tail(bytes))

\* the grid cell of the point (px, py): (floor(x / 32), floor(y / 32))
CellOf(px, py) == <<px \div 64, py \div 64>>

\* the sprites of the current batch whose cell holds the point
SpritesInCell(px, py) ==
    {i \in 1..Len(sprites) : <<sprites[i].pos_x, sprites[i].pos_y>> = CellOf(px, py)}

\* the text of a UTF-8 content of the model
TextOf(content) ==
    CASE content = <<97>> -> <<"a">>
      [] content = <<98>> -> <<"b">>
      [] content = <<71>> -> <<"G">>
      [] content = <<87>> -> <<"W">>

IsPrefix(p, q) == Len(p) <= Len(q) /\ SubSeq(q, 1, Len(p)) = p

\* the step is a run of update: the only handler that hands over to draw
UpdateStep == pc = "events" /\ pc' = "draw"

\* the step is a run of draw
DrawStep == pc = "draw" /\ pc' = "events"

(***************************************************************************)
(* C1: a primary-button release strictly inside at least one rectangle of  *)
(* menu_buttons sets selected_menu_option to the first matching index,     *)
(* sends exactly one select_response message carrying that index and does  *)
(* nothing on the sprite path: no gameplay_state message is consumed, no   *)
(* info request is sent, active_modal is unchanged and no query starts.    *)
(***************************************************************************)
C1_MenuClick ==
    [][\A point \in ClickPoints :
        (/\ mouse_button_up_event("Left", point[1], point[2])
         /\ RectsAround(point[1], point[2]) # {})
        => LET first == Least(RectsAround(point[1], point[2])) - 1
               out == senders'["select_response"]
           IN  /\ selected_menu_option' = Some(first)
               /\ Len(out) = Len(senders["select_response"]) + 1
               /\ SubSeq(out, 1, Len(out) - 1) = senders["select_response"]
               /\ out[Len(out)].topic = "select_response"
               /\ Len(out[Len(out)].content) = 8
               /\ LittleEndian(out[Len(out)].content) = first
               /\ senders'["info"] = senders["info"]
               /\ receivers' = receivers
               /\ active_modal' = active_modal
               /\ pc' = "events"]_vars

\* a click on the second button of a drawn menu has been dispatched while a
\* sprite batch is held and an interaction mode is pending
C1_Witness ==
    /\ selected_menu_option = Some(1)
    /\ Len(senders["select_response"]) = 1
    /\ LittleEndian(senders["select_response"][1].content) = 1
    /\ sprites # << >>
    /\ receivers["gameplay_state"] # << >>
    /\ senders["info"] = << >>

(***************************************************************************)
(* C2: a primary-button release outside every rectangle of menu_buttons    *)
(* and inside the grid cell of at least one sprite of the current batch,   *)
(* with the latest interaction mode the logic process reported (the last   *)
(* message buffered on gameplay_state) being WATCH, sends exactly one info *)
(* message whose payload is (floor(x / 32), floor(y / 32)).                *)
(***************************************************************************)
C2_InfoRequest ==
    [][\A point \in ClickPoints :
        (/\ mouse_button_up_event("Left", point[1], point[2])
         /\ RectsAround(point[1], point[2]) = {}
         /\ SpritesInCell(point[1], point[2]) # {}
         /\ receivers["gameplay_state"] # << >>
         /\ receivers["gameplay_state"][Len(receivers["gameplay_state"])].content = "WATCH")
        => LET out == senders'["info"]
               content == out[Len(out)].content
           IN  /\ Len(out) = Len(senders["info"]) + 1
               /\ SubSeq(out, 1, Len(out) - 1) = senders["info"]
               /\ out[Len(out)].topic = "info"
               /\ Len(content) = 4
               /\ <<LittleEndian(SubSeq(content, 1, 2)),
                    LittleEndian(SubSeq(content, 3, 4))>> = CellOf(point[1], point[2])]_vars

(***************************************************************************)
(* C3: when the hover query of a click at (x, y) receives an info_response *)
(* of text T, active_modal becomes (x, y, T), x and y being the pixel      *)
(* coordinates of that click and T the decoded response.                   *)
(***************************************************************************)
C3_ModalFromResponse ==
    [][/\ \A point \in ClickPoints :
            (/\ mouse_button_up_event("Left", point[1], point[2])
             /\ pc' = "watch_action")
            => <<watch_frame'[1].x, watch_frame'[1].y>> = point
       /\ (pc = "watch_action" /\ pc' # "watch_action")
            => active_modal' =
                 Some(<<watch_frame[1].x, watch_frame[1].y,
                        TextOf(Head(receivers["info_response"]).content)>>)]_vars

\* the query of a click at (20, 200) has been answered "G"
C3_Witness ==
    /\ active_modal = Some(<<40, 400, <<"G">>>>)
    /\ pc = "events"
    /\ Len(senders["info"]) = 1

(***************************************************************************)
(* C4: a primary-button release that matches no rectangle of menu_buttons  *)
(* and lands on no sprite's cell is a no-op: nothing is sent, nothing is   *)
(* consumed, and active_modal, current_menu, menu_buttons and              *)
(* selected_menu_option are unchanged.                                     *)
(***************************************************************************)
C4_MissIsNoOp ==
    [][\A point \in ClickPoints :
        (/\ mouse_button_up_event("Left", point[1], point[2])
         /\ RectsAround(point[1], point[2]) = {}
         /\ SpritesInCell(point[1], point[2]) = {})
        => /\ senders' = senders
           /\ receivers' = receivers
           /\ active_modal' = active_modal
           /\ current_menu' = current_menu
           /\ menu_buttons' = menu_buttons
           /\ selected_menu_option' = selected_menu_option
           /\ pc' = pc]_vars

\* a state a missing click starts from and ends in: a menu is drawn, a batch
\* is held, an interaction mode is pending, and some click point misses both
C4_Witness ==
    /\ pc = "events"
    /\ menu_buttons # << >>
    /\ sprites # << >>
    /\ receivers["gameplay_state"] # << >>
    /\ Len(senders["select_response"]) + Len(senders["info"]) < MaxOut
    /\ \E point \in ClickPoints :
          /\ RectsAround(point[1], point[2]) = {}
          /\ SpritesInCell(point[1], point[2]) = {}

(***************************************************************************)
(* C5: stdout messages reach the log in the order they were sent, each one *)
(* appending a newline and its text: an update that consumes a stdout      *)
(* message (and no clear) leaves the log equal to the log before it plus   *)
(* "\n" plus the text of the oldest buffered message, and every other step *)
(* only adds to the end of the channel.                                    *)
(***************************************************************************)
C5_StdoutAppends ==
    [][/\ (UpdateStep /\ receivers["stdout"] # << >> /\ receivers["clear"] = << >>)
            => /\ stdout' = stdout \o <<"\n">>
                              \o TextOf(Head(receivers["stdout"]).content)
               /\ receivers'["stdout"] = Tail(receivers["stdout"])
       /\ ~UpdateStep
            => /\ IsPrefix(receivers["stdout"], receivers'["stdout"])
               /\ stdout' = stdout]_vars

\* "a" then "b" from the empty log
C5_Witness ==
    /\ stdout = <<"\n", "a", "\n", "b">>
    /\ receivers["stdout"] = << >>

(***************************************************************************)
(* C6: an update that consumes a clear message resets the log, whatever it *)
(* held: the log after the update is empty, or holds only the line of the  *)
(* stdout message the same update consumed after the reset.                *)
(***************************************************************************)
C6_ClearResets ==
    [][(UpdateStep /\ receivers["clear"] # << >>)
        => /\ stdout' = IF receivers["stdout"] = << >> THEN << >>
                        ELSE <<"\n">> \o TextOf(Head(receivers["stdout"]).content)
           /\ receivers'["clear"] = Tail(receivers["clear"])]_vars

\* the log is empty although the last frame drawn shows the line "a": an
\* update has consumed a clear since
C6_Witness ==
    /\ stdout = << >>
    /\ pc = "draw"
    /\ \E i \in 1..Len(canvas) :
          canvas[i] = DrawText(<<"\n", "a">>, <<F32(200), F32(0)>>)

(***************************************************************************)
(* C7: an update that consumes a sprite batch stores it and partitions it  *)
(* by layer into the three draw lists.                                     *)
(***************************************************************************)
\* the draw list of `layer` the statement asks for: the sprites of the layer,
\* in batch order, each with its texture and drawn at (pos_x * 32, pos_y * 32)
LayerList(batch, layer) ==
    LET idx == {i \in 1..Len(batch) : batch[i].layer = layer}
        nth(k) == CHOOSE i \in idx : Cardinality({j \in idx : j <= i}) = k
    IN  [k \in 1..Cardinality(idx) |->
            [image |-> sprites_textures[batch[nth(k)].texture_id],
             dest  |-> <<2 * (batch[nth(k)].pos_x * 32),
                         2 * (batch[nth(k)].pos_y * 32)>>]]

\* C7 as stated: every sprite of the batch is in the draw list of its own
\* layer, UI included
C7_PartitionByLayer ==
    [][(UpdateStep /\ receivers["sprite"] # << >>)
        => LET batch == Head(receivers["sprite"]).content
           IN  /\ sprites' = batch
               /\ sprites_background' = LayerList(batch, "BACKGROUND")
               /\ sprites_movables' = LayerList(batch, "MOVABLES")
               /\ sprites_ui' = LayerList(batch, "UI")]_vars

\* C7 as amended: the BACKGROUND and MOVABLES sprites of the batch are in the
\* draw list of their layer, in batch order, at (pos_x * 32, pos_y * 32), with
\* nothing of an earlier batch; the UI sprites are stored with the batch but
\* drawn by no list, the UI draw list staying empty
C7_PartitionDrawnLayers ==
    [][(UpdateStep /\ receivers["sprite"] # << >>)
        => LET batch == Head(receivers["sprite"]).content
           IN  /\ sprites' = batch
               /\ sprites_background' = LayerList(batch, "BACKGROUND")
               /\ sprites_movables' = LayerList(batch, "MOVABLES")
               /\ sprites_ui' = << >>]_vars

\* the batch with a MOVABLES sprite on cell (0, 7) and a UI sprite is held
C7_Witness ==
    /\ Len(sprites) = 2
    /\ \E i \in 1..Len(sprites) : sprites[i].layer = "UI"
    /\ sprites_movables = <<[image |-> "/warrior.png", dest |-> <<0, 448>>]>>
    /\ sprites_background = << >>
    /\ sprites_ui = << >>

(***************************************************************************)
(* C8: after every draw with a non-empty current_menu, menu_buttons holds  *)
(* exactly one rectangle per option of current_menu, in option order, and  *)
(* no rectangle of an earlier draw.  (Whenever current_menu is not empty   *)
(* and draw is not the next handler to run, a draw of that menu has run.)  *)
(***************************************************************************)
\* the rectangle of option i (0-based) of a menu drawn at (0, 200), in pixels:
\* x = 10, y = 210 + 20 i, w = 96, h = 15
OptionRect(i) ==
    [x |-> 2 * 10, y |-> 2 * (210 + 20 * i), w |-> 2 * 96, h |-> 2 * 15]

C8_ButtonsOfCurrentMenu ==
    (pc # "draw" /\ current_menu # << >>)
        => menu_buttons = [i \in 1..Len(current_menu) |-> OptionRect(i - 1)]

(***************************************************************************)
(* C9: an update that consumes a select message replaces current_menu by   *)
(* the labels found by splitting the payload on ':', and the empty payload *)
(* yields no label: current_menu is then empty and no menu is drawn.       *)
(***************************************************************************)
\* the labels of the select contents of the model: "" has none, "A" has one,
\* "A:B" has two
LabelsOf(content) ==
    CASE content = << >> -> << >>
      [] content = <<65>> -> << <<"A">> >>
      [] content = <<65, 58, 66>> -> << <<"A">>, <<"B">> >>

C9_SelectReplacesMenu ==
    [][(UpdateStep /\ receivers["select"] # << >>)
        => current_menu' = LabelsOf(Head(receivers["select"]).content)]_vars

(***************************************************************************)
(* C10: from the moment a hover query has sent its info request until it   *)
(* consumes a message from info_response, the frame loop is stalled: no    *)
(* update, no draw and no other dispatch runs, and nothing is taken from   *)
(* an inbound topic other than info_response, whatever the logic process   *)
(* enqueues meanwhile.                                                     *)
(***************************************************************************)
C10_QueryStallsLoop ==
    [][/\ Len(senders'["info"]) > Len(senders["info"]) => pc' = "watch_action"
       /\ pc = "watch_action"
            => /\ UNCHANGED <<sprites_movables, sprites_background, sprites_ui,
                              mouse, stdout, current_menu, sprites, menu_buttons,
                              selected_menu_option, canvas, senders>>
               /\ \A t \in InboundTopics \ {"info_response"} :
                     IsPrefix(receivers[t], receivers'[t])
               /\ \/ /\ pc' = "watch_action"
                     /\ active_modal' = active_modal
                     /\ IsPrefix(receivers["info_response"], receivers'["info_response"])
                  \/ /\ pc' = "events"
                     /\ receivers["info_response"] # << >>
                     /\ receivers'["info_response"] = Tail(receivers["info_response"])]_vars

\* the query waits with no response buffered while a stdout message and a
\* select message the logic process sent stay in their channels
C10_Witness ==
    /\ pc = "watch_action"
    /\ receivers["info_response"] = << >>
    /\ Len(senders["info"]) = 1
    /\ \E t \in {"stdout", "select", "clear", "sprite"} : receivers[t] # << >>

(***************************************************************************)
(* C11: a hover query has no timeout and no cancellation.  Once a message  *)
(* is buffered on info_response the waiting query completes and the event  *)
(* loop is free again; as long as none is, the presentation layer takes no *)
(* step at all: the only steps are the logic process sending.              *)
(***************************************************************************)
C11_NoTimeout ==
    /\ (pc = "watch_action" /\ receivers["info_response"] # << >>)
          ~> (pc = "events")
    /\ [][(pc = "watch_action" /\ receivers["info_response"] = << >>)
            => /\ pc' = "watch_action"
               /\ UNCHANGED <<sprites_movables, sprites_background, sprites_ui,
                              mouse, senders, stdout, current_menu, sprites,
                              menu_buttons, selected_menu_option, active_modal,
                              gameplay_state, canvas, watch_frame>>
               /\ \A t \in DOMAIN receivers : IsPrefix(receivers[t], receivers'[t])]_vars

\* a query has completed and a frame has started after it
C11_Witness ==
    /\ active_modal # None
    /\ Len(senders["info"]) = 1
    /\ pc = "draw"

(***************************************************************************)
(* C12: at most one hover request is outstanding.  In every state the      *)
(* messages sent on info exceed the messages taken from info_response by   *)
(* at most one, and an info request is sent only when every earlier one    *)
(* has been answered.                                                      *)
(***************************************************************************)
C12_OneOutstanding ==
    [][/\ Len(senders'["info"]) - info_responses_taken' \in {0, 1}
       /\ Len(senders'["info"]) > Len(senders["info"])
            => /\ Len(senders["info"]) = info_responses_taken
               /\ Len(senders'["info"]) = Len(senders["info"]) + 1]_vars

\* a second request is outstanding after the first was answered
C12_Witness ==
    /\ Len(senders["info"]) = 2
    /\ info_responses_taken = 1
    /\ pc = "watch_action"

(***************************************************************************)
(* C13: a left click outside every menu button on a cell that holds a      *)
(* sprite, with no interaction mode pending or with a pending mode other   *)
(* than WATCH, runs no hover query: nothing is sent, info_response keeps   *)
(* its messages, the event loop is not blocked and active_modal is         *)
(* unchanged.  With no mode pending no channel changes at all; a click the *)
(* hit test accepts with a mode other than WATCH pending takes exactly     *)
(* that mode message.                                                      *)
(***************************************************************************)
C13_NoQueryWithoutWatch ==
    [][\A point \in ClickPoints :
        (/\ mouse_button_up_event("Left", point[1], point[2])
         /\ RectsAround(point[1], point[2]) = {}
         /\ SpritesInCell(point[1], point[2]) # {}
         /\ \/ receivers["gameplay_state"] = << >>
            \/ receivers["gameplay_state"][1].content # "WATCH")
        => /\ senders' = senders
           /\ info_responses_taken' = info_responses_taken
           /\ pc' = "events"
           /\ watch_frame' = None
           /\ active_modal' = active_modal
           /\ \A t \in DOMAIN receivers \ {"gameplay_state"} :
                 receivers'[t] = receivers[t]
           /\ receivers'["gameplay_state"] =
                IF /\ receivers["gameplay_state"] # << >>
                   /\ sprites_at(sprites, point[1], point[2]) # << >>
                THEN Tail(receivers["gameplay_state"])
                ELSE receivers["gameplay_state"]]_vars

\* a state a sprite click with no mode pending starts from and ends in: an
\* answer is buffered on info_response, and it stays there
C13_Witness ==
    /\ pc = "events"
    /\ receivers["gameplay_state"] = << >>
    /\ receivers["info_response"] # << >>
    /\ senders["info"] = << >>
    /\ active_modal = None
    /\ Len(senders["select_response"]) + Len(senders["info"]) < MaxOut
    /\ \E point \in ClickPoints :
          /\ RectsAround(point[1], point[2]) = {}
          /\ sprites_at(sprites, point[1], point[2]) # << >>

(***************************************************************************)
(* C14: a sprite click is interpreted under the interaction mode the logic *)
(* process reported last.  A left click the hit test accepts, outside      *)
(* every menu button and with modes pending, sends an info request exactly *)
(* when the most recently sent pending mode is WATCH.                      *)
(***************************************************************************)
C14_LatestMode ==
    [][\A point \in ClickPoints :
        (/\ mouse_button_up_event("Left", point[1], point[2])
         /\ RectsAround(point[1], point[2]) = {}
         /\ sprites_at(sprites, point[1], point[2]) # << >>
         /\ receivers["gameplay_state"] # << >>)
        => LET pending == receivers["gameplay_state"]
               latest == pending[Len(pending)].content
           IN  (Len(senders'["info"]) = Len(senders["info"]) + 1)
                  <=> (latest = "WATCH")]_vars

(***************************************************************************)
(* C15: every lookup of a topic that is absent from the channel maps is    *)
(* fatal.  An update started with clear, stdout, select or sprite absent   *)
(* does not complete; a left click on a menu button with select_response   *)
(* absent, and a left click on a sprite that looks up an absent            *)
(* gameplay_state, info or info_response, end the session.                 *)
(***************************************************************************)
C15_AbsentTopicFatal ==
    [][/\ (/\ pc = "events"
           /\ {"clear", "stdout", "select", "sprite"} \ DOMAIN receivers # {})
          => pc' # "draw"
       /\ \A point \in ClickPoints :
            mouse_button_up_event("Left", point[1], point[2])
            => LET on_menu == RectsAround(point[1], point[2]) # {}
                   on_sprite == /\ ~on_menu
                                /\ sprites_at(sprites, point[1], point[2]) # << >>
                   watch == /\ on_sprite
                            /\ "gameplay_state" \in DOMAIN receivers
                            /\ receivers["gameplay_state"] # << >>
                            /\ receivers["gameplay_state"][1].content = "WATCH"
               IN  /\ (on_menu /\ "select_response" \notin DOMAIN senders)
                          => pc' = "panicked"
                   /\ (on_sprite /\ "gameplay_state" \notin DOMAIN receivers)
                          => pc' = "panicked"
                   /\ (watch /\ "info" \notin DOMAIN senders)
                          => pc' = "panicked"
                   /\ (watch /\ "info_response" \notin DOMAIN receivers)
                          => pc' = "panicked"]_vars

(***************************************************************************)
(* C16: an update takes at most one message from each of clear, stdout,    *)
(* select and sprite: the oldest one if the topic has any, so a backlog    *)
(* is applied one message per update in sending order.  It takes nothing   *)
(* from gameplay_state and info_response.                                  *)
(***************************************************************************)
C16_OneMessagePerTopic ==
    [][UpdateStep
        => /\ \A t \in {"clear", "stdout", "select", "sprite"} :
                receivers'[t] = IF receivers[t] = << >>
                                THEN << >> ELSE Tail(receivers[t])
           /\ receivers'["gameplay_state"] = receivers["gameplay_state"]
           /\ receivers'["info_response"] = receivers["info_response"]
           /\ receivers["sprite"] # << >>
                => sprites' = Head(receivers["sprite"]).content
           /\ (/\ receivers["select"] # << >>
               /\ Head(receivers["select"]).content # << >>)
                => current_menu' = LabelsOf(Head(receivers["select"]).content)
           /\ receivers["stdout"] # << >>
                => \E log \in {stdout, << >>} :
                      stdout' = log \o <<"\n">>
                                    \o TextOf(Head(receivers["stdout"]).content)]_vars

\* after an update that found two stdout messages and a pending mode: the
\* first text is in the log, the second message and the mode are still queued
C16_Witness ==
    /\ pc = "draw"
    /\ stdout = <<"\n", "a">>
    /\ Len(receivers["stdout"]) = 1
    /\ Head(receivers["stdout"]).content = <<98>>
    /\ receivers["gameplay_state"] # << >>

(***************************************************************************)
(* C17: the sprite hit test is cell containment.  For every click point    *)
(* outside the menu buttons the sprites hit are exactly the sprites of the *)
(* held batch whose cell (pos_x, pos_y) is (floor(x / 32), floor(y / 32)), *)
(* in batch order, the first pixel row and column of the cell included.    *)
(***************************************************************************)
C17_CellContainment ==
    \A point \in ClickPoints :
        RectsAround(point[1], point[2]) = {}
        => sprites_at(sprites, point[1], point[2])
             = SelectSeq(sprites,
                         LAMBDA s : <<s.pos_x, s.pos_y>> = CellOf(point[1], point[2]))

(***************************************************************************)
(* C18: a hover query is only run with a non-empty set of hit sprites, so  *)
(* a completed query always leaves a modal: once active_modal is set it is *)
(* never None again, it changes only when a query completes, and it then   *)
(* holds the click position and the answer of that query.                  *)
(***************************************************************************)
C18_ModalStays ==
    [][/\ watch_frame' # None => watch_frame'[1].sprites # << >>
       /\ active_modal # None => active_modal' # None
       /\ IF pc = "watch_action" /\ pc' = "events"
          THEN active_modal' =
                 Some(<<watch_frame[1].x, watch_frame[1].y,
                        TextOf(Head(receivers["info_response"]).content)>>)
          ELSE active_modal' = active_modal]_vars

\* two queries have completed and the modal shows an answer
C18_Witness ==
    /\ info_responses_taken = 2
    /\ Len(senders["info"]) = 2
    /\ pc = "events"
    /\ active_modal # None
    /\ active_modal[1][3] = <<"W">>

(***************************************************************************)
(* C19: every index a click sends on select_response, and every value a    *)
(* click gives selected_menu_option, is an index of the current_menu held  *)
(* at the moment of the click: it is smaller than the number of options.   *)
(***************************************************************************)
C19_IndexInCurrentMenu ==
    [][\A point \in ClickPoints :
        mouse_button_up_event("Left", point[1], point[2])
        => /\ (selected_menu_option' # selected_menu_option
                  /\ selected_menu_option' # None)
                => selected_menu_option'[1] < Len(current_menu)
           /\ Len(senders'["select_response"]) > Len(senders["select_response"])
                => LET out == senders'["select_response"]
                   IN  LittleEndian(out[Len(out)].content) < Len(current_menu)]_vars

(***************************************************************************)
(* C20: whenever a click sends an info request, the hit set of that click  *)
(* is not empty and the cell pair of the request is the cell (pos_x,       *)
(* pos_y) of every sprite in it: the logic process is asked about a cell a *)
(* sprite of the held batch occupies.                                      *)
(***************************************************************************)
C20_RequestNamesHitCell ==
    [][\A point \in ClickPoints :
        (/\ mouse_button_up_event("Left", point[1], point[2])
         /\ Len(senders'["info"]) > Len(senders["info"]))
        => LET out == senders'["info"]
               content == out[Len(out)].content
               cell == <<LittleEndian(SubSeq(content, 1, 2)),
                         LittleEndian(SubSeq(content, 3, 4))>>
               hit == sprites_at(sprites, point[1], point[2])
           IN  /\ hit # << >>
               /\ watch_frame'[1].sprites = hit
               /\ \A i \in 1..Len(hit) : <<hit[i].pos_x, hit[i].pos_y>> = cell
               /\ \E i \in 1..Len(sprites) :
                     <<sprites[i].pos_x, sprites[i].pos_y>> = cell]_vars

\* a request for cell (0, 6) has just been sent and waits for its answer
C20_Witness ==
    /\ pc = "watch_action"
    /\ Len(senders["info"]) = 1
    /\ senders["info"][1].content = <<0, 0, 6, 0>>
    /\ \E i \in 1..Len(sprites) : <<sprites[i].pos_x, sprites[i].pos_y>> = <<0, 6>>

====
